---- MODULE Spec2Model ----
(***************************************************************************)
(* Model of the Ether Dream streaming client, packages/ether-dream/src/    *)
(* EtherConn.ts: the response demultiplexer (inputqueue /                  *)
(* inputhandlerqueue), the device session commands, the connect / close    *)
(* lifecycle and the run() scheduler loop, executed on a JavaScript event  *)
(* loop (macrotasks: socket events and timers; microtasks: promise         *)
(* continuations).                                                         *)
(***************************************************************************)
EXTENDS Integers, Sequences, FiniteSets, TLC

\* ---------------------------------------------------------------- constants
STANDARD_RESPONSE_SIZE == 22
PLAYBACK_IDLE == 0
MAX_FULLNESS == 1799
LOW_CAP == 100
PAD_CAP == 150
PAUSE_MS == 5
ACK == 97

\* ------------------------------------------------------------------- bounds
MaxConn == 2
MaxProcs == 3
MaxTimers == 3
MaxSpecial == 1
BurstSpecial == 4
ChunkUnit == 11

\* Inputs the environment draws from.
FullnessVals == {0, 1699, 1700, 1799}
UnderrunFlagVals == {2, 3}
NakVals == {73}
FrameLens == {3, 2000}
SourceCalls == {"-", "close", "reconnect", "?"}
FullRange == {0, 1699, 1700, 1799, 1800, 1949, 32767, 32768, 65535}
Addrs == {[ip |-> "A", port |-> 7765], [ip |-> "B", port |-> 7766]}
RateVals == {0, 30000}
UserCmds == {"?", "p", "b", "u", "s", "e", "d"}

VARIABLES
  \* EtherConn fields
  client, inputqueue, inputhandlerqueue, fullness, playback_state,
  beginsent, preparesent, valid, rate, streamCallback, running, ip, port,
  \* event loop: microtask queue, suspended async calls, pending pop timers
  micro, procs, popTimers,
  \* transports, connect() promises, error timers, the device
  socks, connRes, errTimer, devq, devPlay, nconn, budget,
  \* observations
  gRx, gReg, dlog, wlog, oplog, needBegin, last, iterLog, hsDone, rxBytes

sessVars == <<client, inputqueue, inputhandlerqueue, fullness, playback_state,
              beginsent, preparesent, valid, rate, streamCallback, running, ip, port>>
vars == <<client, inputqueue, inputhandlerqueue, fullness, playback_state,
          beginsent, preparesent, valid, rate, streamCallback, running, ip, port,
          micro, procs, popTimers, socks, connRes, errTimer, devq, devPlay, nconn, budget,
          gRx, gReg, dlog, wlog, oplog, needBegin, last, iterLog, hsDone, rxBytes>>

\* ------------------------------------------------------------------ helpers
Min(a, b) == IF a < b THEN a ELSE b
Max(a, b) == IF a > b THEN a ELSE b
Drop(q, n) == SubSeq(q, n + 1, Len(q))
UnderrunBit(flags) == (flags \div 2) % 2 = 1

\* ------------------------------------------------------- wire codec (device)
Opcode(c) ==
  CASE c = "?" -> 63 [] c = "p" -> 112 [] c = "b" -> 98 [] c = "u" -> 117
    [] c = "s" -> 115 [] c = "e" -> 255 [] c = "d" -> 100

\* The 22-byte dac_response frame: response, command, then the 20-byte status.
EncodeResponse(f) ==
  << f.response, Opcode(f.command), 0, 0, f.playback_state, 0, 0, 0,
     f.playback_flags % 256, f.playback_flags \div 256, 0, 0,
     f.buffer_fullness % 256, f.buffer_fullness \div 256,
     0, 0, 0, 0, 0, 0, 0, 0 >>

parseStandardResponse(data) ==
  [ response |-> data[1],
    command |-> data[2],
    status |-> [ playback_state |-> data[5],
                 playback_flags |-> data[9] + 256 * data[10],
                 buffer_fullness |-> data[13] + 256 * data[14] ] ]

\* ----------------------------------------------------- suspended async calls
FreeProc == [top |-> "-", pc |-> "free", frame |-> 0, cap |-> 0, capF |-> 0,
             paused |-> 0, idle0 |-> FALSE, clean |-> TRUE,
             disturbed |-> FALSE, wrote |-> <<>>, acked |-> 0, un |-> FALSE,
             ok |-> TRUE, polled |-> FALSE, stale |-> "", lo |-> 0,
             dun |-> FALSE, dok |-> TRUE, pulled |-> FALSE,
             user |-> FALSE]

NoIter == [how |-> "-", idle0 |-> FALSE, clean |-> TRUE, disturbed |-> FALSE,
           rate |-> 0, wrote |-> <<>>]

Resumed(pc) ==
  CASE pc = "prep_wait" -> "prep_resume"
    [] pc = "pts_wait" -> "pts_resume"
    [] pc = "beg_wait" -> "beg_resume"
    [] pc = "upd_wait" -> "upd_resume"
    [] pc = "cmd_wait" -> "cmd_resume"
    [] OTHER -> pc

IsWaiting(pc) == pc \in {"prep_wait", "pts_wait", "beg_wait", "upd_wait", "cmd_wait"}

\* No net.connect call in this step.
NoDial == [sock |-> 0, host |-> "", port |-> 0]

\* The session and event-loop state an operation works on.
Cur ==
  [ client |-> client, inputqueue |-> inputqueue,
    inputhandlerqueue |-> inputhandlerqueue, fullness |-> fullness,
    playback_state |-> playback_state, beginsent |-> beginsent,
    preparesent |-> preparesent, valid |-> valid, rate |-> rate,
    streamCallback |-> streamCallback, running |-> running,
    ip |-> ip, port |-> port, dial |-> NoDial, destroyed |-> {},
    fresh |-> nconn + 1,
    micro |-> micro, procs |-> procs, connRes |-> connRes,
    gRx |-> gRx, gReg |-> gReg, needBegin |-> needBegin, hsDone |-> hsDone,
    dlog |-> <<>>, wlog |-> <<>>, oplog |-> <<>>, iterLog |-> NoIter ]

ProcK(p) == [t |-> "proc", id |-> p]
HsK(c) == [t |-> "hs", id |-> c]
ThenK == [t |-> "then", id |-> 0]

SetPc(s, p, pc) == [s EXCEPT !.procs[p].pc = pc]

\* A promise the caller holds settles: the reaction the caller attached to
\* it is queued behind the continuations already queued.
Settle(s) == [s EXCEPT !.micro = Append(@, ThenK)]

\* The slot of an async call is released.
Free(s, p) == [s EXCEPT !.procs[p] = FreeProc]

\* An async call ends; the promise of a call made by the user settles
\* (nothing holds the promise of a run() the session started itself).
Finish(s, p) ==
  IF s.procs[p].top = "run" /\ ~s.procs[p].user
  THEN Free(s, p)
  ELSE Settle(Free(s, p))

IterSummary(s, p, how) ==
  [ how |-> how, idle0 |-> s.procs[p].idle0, clean |-> s.procs[p].clean,
    disturbed |-> s.procs[p].disturbed, rate |-> s.rate,
    wrote |-> s.procs[p].wrote ]

\* Observation: an iteration of the scheduler ends in an exception.
Threw(s, p) ==
  IF s.procs[p].top = "run"
  THEN [s EXCEPT !.iterLog = IterSummary(s, p, "threw")]
  ELSE s

\* The number of awaits between method f and the outermost method of a call:
\* run awaits sendPrepare and sendPoints, sendPoints awaits sendBegin.
Depth(top, f) ==
  IF top = f THEN 0 ELSE IF top = "run" /\ f = "b" THEN 2 ELSE 1

\* An exception in async method f of call p: the promise of f is rejected,
\* and each caller awaiting it resumes, and rejects in turn, in a promise
\* job of its own.
Throw(s, p, f) ==
  LET n == Depth(s.procs[p].top, f)
  IN IF n = 0 THEN Finish(Threw(s, p), p)
     ELSE [Threw(s, p) EXCEPT !.procs[p].pc = IF n = 2 THEN "rej2" ELSE "rej1",
                              !.micro = Append(@, ProcK(p))]

OpDone(s, p, op) ==
  [s EXCEPT !.oplog = Append(@, [op |-> op, un |-> s.procs[p].un,
                                 ok |-> s.procs[p].ok,
                                 beginsent |-> s.beginsent])]

\* sendPoints completes after the begin it awaited: the response the
\* operation itself awaited is the one to its writeSamples command.
PointsDone(s, p) ==
  [s EXCEPT !.oplog = Append(@, [op |-> "d", un |-> s.procs[p].dun,
                                 ok |-> s.procs[p].dok,
                                 beginsent |-> s.beginsent])]

\* ------------------------------------------------------------ EtherConn.ts
handleStandardResponse(s, data) ==
  [s EXCEPT !.fullness = data.status.buffer_fullness,
            !.playback_state = data.status.playback_state,
            !.valid = (data.response = ACK),
            !.beginsent = IF data.status.playback_flags = 2 THEN FALSE ELSE @]

\* Observation kept for iterations that start idle with begin-sent false:
\* whether every response handled so far was an acknowledgement without the
\* underrun flag.
Clean(pr, bad) == IF pr.idle0 THEN pr.clean /\ ~bad ELSE pr.clean

\* The callback built by waitForResponse: parse, handle, resolve(data).
\* Resolving queues the awaiting continuation as a microtask.
Callback(s, h, response) ==
  LET st == parseStandardResponse(response)
      un == UnderrunBit(st.status.playback_flags)
      bad == st.response # ACK \/ un
      s1 == handleStandardResponse(s, st)
      bare == h.k.t = "proc" /\ s.procs[h.k.id].wrote = <<>>
      sent == IF h.k.t = "hs" \/ bare THEN "?"
              ELSE s.procs[h.k.id].wrote[Len(s.procs[h.k.id].wrote)]
      verdict == IF s.gReg = <<>>
                 THEN [okK |-> FALSE, okData |-> FALSE, own |-> FALSE,
                       ack |-> st.response = ACK, valid |-> s1.valid,
                       un |-> un, bs0 |-> s.beginsent, bs1 |-> s1.beginsent]
                 ELSE [ack |-> st.response = ACK, valid |-> s1.valid,
                       un |-> un, bs0 |-> s.beginsent, bs1 |-> s1.beginsent,
                       own |-> bare \/ st.command = Opcode(sent),
                       okK |-> s.gReg[1].k = h.k,
                       okData |-> response = SubSeq(s.gRx, 1, Min(s.gReg[1].size, Len(s.gRx)))
                                  /\ Len(response) = s.gReg[1].size]
      s2 == [s1 EXCEPT
               !.dlog = Append(@, verdict),
               !.gRx = IF s.gReg = <<>> THEN @ ELSE Drop(@, Min(s.gReg[1].size, Len(@))),
               !.gReg = IF @ = <<>> THEN @ ELSE Tail(@),
               !.needBegin = IF un /\ @ = 0 THEN 1 ELSE @,
               !.micro = Append(@, IF bare THEN ThenK ELSE h.k)]
  IN IF h.k.t = "hs"
     THEN [s2 EXCEPT !.hsDone = @ \cup {h.k.id}]
     ELSE IF bare
     THEN Free(s2, h.k.id)
     ELSE [s2 EXCEPT
             !.procs = [q \in DOMAIN s.procs |->
                          IF s.procs[q].pc = "free" THEN s.procs[q]
                          ELSE IF q = h.k.id
                          THEN [s.procs[q] EXCEPT !.pc = Resumed(s.procs[q].pc),
                                                  !.un = un,
                                                  !.ok = (st.response = ACK),
                                                  !.acked = s.procs[q].acked + 1,
                                                  !.clean = Clean(s.procs[q], bad)]
                          ELSE [s.procs[q] EXCEPT !.clean = Clean(s.procs[q], bad)]]]

\* Variant: the newest expectation is served instead of the oldest.
popNewestFirst(s) ==
  IF Len(s.inputhandlerqueue) > 0
  THEN LET handler == s.inputhandlerqueue[Len(s.inputhandlerqueue)]
       IN IF Len(s.inputqueue) >= handler.size
          THEN LET response == SubSeq(s.inputqueue, 1, handler.size)
                   s1 == [s EXCEPT !.inputqueue = Drop(@, handler.size),
                                   !.inputhandlerqueue =
                                      SubSeq(@, 1, Len(@) - 1)]
               IN Callback(s1, handler, response)
          ELSE s
  ELSE s

_popinputqueue(s) ==
  IF Len(s.inputhandlerqueue) > 0
  THEN LET handler == s.inputhandlerqueue[1]
       IN IF Len(s.inputqueue) >= handler.size
          THEN LET response == SubSeq(s.inputqueue, 1, handler.size)
                   s1 == [s EXCEPT !.inputqueue = Drop(@, handler.size),
                                   !.inputhandlerqueue = Tail(@)]
               IN Callback(s1, handler, response)
          ELSE s
  ELSE s

\* this.client.write(...) then _popinputqueue().  The write is recorded in
\* wlog and handed to the transport when the step commits.
_send(s, p, cmd, arg) ==
  LET e == [sock |-> s.client, c |-> cmd, n |-> arg, by |-> s.procs[p].top,
            needBegin |-> s.needBegin, capF |-> s.procs[p].capF,
            paused |-> s.procs[p].paused, limit |-> s.procs[p].cap,
            frame |-> s.procs[p].frame, nth |-> Len(s.procs[p].wrote) + 1,
            acked |-> s.procs[p].acked, full |-> s.fullness,
            ok |-> s.procs[p].ok, bs |-> s.beginsent,
            stale |-> s.procs[p].stale, lo |-> s.procs[p].lo]
      s1 == [s EXCEPT !.wlog = Append(@, e),
                      !.procs[p].wrote = Append(@, cmd),
                      !.needBegin = IF cmd = "b" THEN 0
                                    ELSE IF cmd = "d" /\ s.procs[p].top = "run" /\ @ > 0
                                    THEN 2 ELSE @]
  IN _popinputqueue(s1)

waitForResponse(s, k, size) ==
  LET s1 == [s EXCEPT !.inputhandlerqueue = Append(@, [size |-> size, k |-> k]),
                      !.gReg = Append(@, [size |-> size, k |-> k])]
  IN _popinputqueue(s1)

\* `this._send(cmd); await this.waitForResponse();` -- client undefined makes
\* this.client!.write throw a TypeError before anything is written.
SendCmd(s, p, cmd, arg, waitpc) ==
  IF s.client = 0
  THEN Throw(s, p, cmd)
  ELSE waitForResponse(SetPc(_send(s, p, cmd, arg), p, waitpc), ProcK(p),
                       STANDARD_RESPONSE_SIZE)

sendPrepare(s, p) == SendCmd(s, p, "p", 0, "prep_wait")

\* Variant: begin without the rate check.
sendBeginUnchecked(s, p, r) == SendCmd(s, p, "b", r, "beg_wait")

sendBegin(s, p, r) ==
  IF r = 0 THEN Throw(s, p, "b") ELSE SendCmd(s, p, "b", r, "beg_wait")

sendUpdate(s, p, r) == SendCmd(s, p, "u", r, "upd_wait")

sendStop(s, p) == SendCmd(s, p, "s", 0, "cmd_wait")

sendEmergencyStop(s, p) == SendCmd(s, p, "e", 0, "cmd_wait")

sendPing(s, p) == SendCmd(s, p, "?", 0, "cmd_wait")

sendPoints(s, p, n) == SendCmd(s, p, "d", n, "pts_wait")

\* The locals frame, cap and points of run() are dead once sendPoints was
\* called.
Submitted(s, p) ==
  IF s.procs[p].pc = "free" THEN s
  ELSE [s EXCEPT !.procs[p].cap = 0, !.procs[p].capF = 0, !.procs[p].frame = 0,
                 !.procs[p].paused = 0, !.procs[p].lo = 0]

\* Variant: the whole frame is sent, the limit ignored.
runSubmitWholeFrame(s, p) == Submitted(sendPoints(s, p, s.procs[p].frame), p)

\* Array.prototype.splice(start, deleteCount) on a frame of len samples: the
\* removed run is the n samples that follow the first lo.
splice(len, start, deleteCount) ==
  LET lo == Min(start, len)
  IN [lo |-> lo, n |-> Min(deleteCount, len - lo)]

\* Variant: the batch is taken from the end of the frame.
runSubmitTail(s, p) ==
  LET points == splice(s.procs[p].frame,
                       Max(0, s.procs[p].frame - s.procs[p].cap), s.procs[p].cap)
  IN Submitted(sendPoints([s EXCEPT !.procs[p].lo = points.lo], p, points.n), p)

\* run(), lines 260-268: the batch limit, the pause, the splice and the send.
runSubmit(s, p) ==
  LET points == splice(s.procs[p].frame, 0, s.procs[p].cap)
  IN Submitted(sendPoints([s EXCEPT !.procs[p].lo = points.lo], p, points.n), p)

runAfterPause(s, p) ==
  runSubmit([s EXCEPT !.procs[p].cap = @ + PAD_CAP], p)

\* Variant: the pause also taken at a spare capacity of exactly 100.
runCapInclusive(s, p) ==
  LET cap == Max(0, MAX_FULLNESS - s.fullness)
      s1 == [s EXCEPT !.procs[p].cap = cap, !.procs[p].capF = s.fullness]
  IN IF cap <= LOW_CAP
     THEN [s1 EXCEPT !.procs[p].pc = "pause", !.procs[p].paused = PAUSE_MS]
     ELSE runSubmit(s1, p)

runCap(s, p) ==
  LET cap == Max(0, MAX_FULLNESS - s.fullness)
      s1 == [s EXCEPT !.procs[p].cap = cap, !.procs[p].capF = s.fullness]
  IN IF cap < LOW_CAP
     THEN [s1 EXCEPT !.procs[p].pc = "pause", !.procs[p].paused = PAUSE_MS]
     ELSE runSubmit(s1, p)

\* Variant: close() that leaves begin-sent as it was.
closeKeepsBeginSent(s) ==
  [s EXCEPT !.inputqueue = <<>>, !.inputhandlerqueue = <<>>,
            !.fullness = 0, !.playback_state = 0,
            !.preparesent = FALSE, !.valid = TRUE, !.running = FALSE,
            !.client = 0,
            !.destroyed = IF s.client # 0 THEN @ \cup {s.client} ELSE @,
            !.gRx = <<>>, !.gReg = <<>>,
            !.procs = [q \in DOMAIN s.procs |->
                         IF IsWaiting(s.procs[q].pc) \/ s.procs[q].pc = "free"
                         THEN FreeProc
                         ELSE [s.procs[q] EXCEPT !.stale = IF @ = "" THEN s.procs[q].pc
                                                            ELSE @,
                                                 !.disturbed = s.procs[q].idle0]]]

\* connect(ip, port), lines 69-81: the address stored, the transport c
\* created by net.connect, the promise pending.
connect(s, c, i, pt) ==
  [s EXCEPT !.ip = i, !.port = pt, !.client = c, !.connRes[c] = "pending",
            !.dial = [sock |-> c, host |-> i, port |-> pt]]

\* close(): the fields reset, the transport destroyed.  Continuations that
\* were queued are dropped with their entries: those calls never resume.
close(s) ==
  [s EXCEPT !.inputqueue = <<>>, !.inputhandlerqueue = <<>>,
            !.fullness = 0, !.playback_state = 0, !.beginsent = FALSE,
            !.preparesent = FALSE, !.valid = TRUE, !.running = FALSE,
            !.client = 0,
            !.destroyed = IF s.client # 0 THEN @ \cup {s.client} ELSE @,
            !.gRx = <<>>, !.gReg = <<>>,
            !.procs = [q \in DOMAIN s.procs |->
                         IF IsWaiting(s.procs[q].pc) \/ s.procs[q].pc = "free"
                         THEN FreeProc
                         ELSE [s.procs[q] EXCEPT !.stale = IF @ = "" THEN s.procs[q].pc
                                                            ELSE @,
                                                 !.disturbed = s.procs[q].idle0]]]

\* Variant: reconnect() without the address check.
reconnectUnchecked(s, c) == connect(close(s), c, s.ip, s.port)

\* reconnect(), lines 125-131; c names the transport net.connect would create.
\* The throw leaves everything as it was.
reconnect(s, c) ==
  IF s.ip = "" \/ s.port = 0
  THEN s
  ELSE connect(close(s), c, s.ip, s.port)

\* Observation taken when the frame has been pulled: the iteration starts
\* idle with begin-sent false; the session has no transport.
Started(s, p) ==
  [s EXCEPT !.procs[p].disturbed = (s.client = 0),
            !.procs[p].idle0 = (s.playback_state = PLAYBACK_IDLE /\ ~s.beginsent)]

\* streamCallback(), line 253: the sample source is code of the user and
\* may call the session before it returns the frame.
SourceCall(s, call) ==
  CASE call = "-" -> s
    [] call = "close" -> close(s)
    [] call = "reconnect" -> reconnect(s, s.fresh)
    [] call = "?" ->
         LET q == CHOOSE q \in DOMAIN s.procs :
                    /\ s.procs[q].pc = "free"
                    /\ \A r \in DOMAIN s.procs : s.procs[r].pc = "free" => q <= r
         IN sendPing([s EXCEPT !.procs[q] = [FreeProc EXCEPT !.top = "?",
                                                             !.pc = "entry"]], q)

\* Variant: prepare is sent when the device is not idle instead of when it is.
runFrameWhenBusy(s, p) ==
  IF s.playback_state # PLAYBACK_IDLE
  THEN sendPrepare(Started(s, p), p)
  ELSE runCap(Started(s, p), p)

\* run(), lines 255-258, once the source has returned the frame: prepare
\* first when the last-known playback state is idle.
runFrame(s, p) ==
  IF s.playback_state = PLAYBACK_IDLE
  THEN sendPrepare(Started(s, p), p)
  ELSE runCap(Started(s, p), p)

\* Variant: without a sample source the loop returns instead of polling.
runNoPoll(s, p, src) ==
  IF ~s.running \/ s.streamCallback = 0
  THEN Free(s, p)
  ELSE runFrame(SourceCall(
                  [s EXCEPT !.procs[p] =
                     [FreeProc EXCEPT !.top = "run", !.pc = "entry",
                        !.frame = src.len, !.pulled = TRUE,
                        !.polled = (s.procs[p].pc = "poll"),
                        !.stale = s.procs[p].stale]],
                  src.call), p)

\* run(), lines 246-258: entry of one scheduler iteration; src is what the
\* sample source does when called: a call of the session it makes, and the
\* length of the frame it returns.
run(s, p, src) ==
  IF ~s.running
  THEN Free(s, p)
  ELSE IF s.streamCallback = 0
  THEN [s EXCEPT !.procs[p] = [FreeProc EXCEPT !.top = "run", !.pc = "poll",
                                                !.stale = s.procs[p].stale]]
  ELSE runFrame(SourceCall(
                  [s EXCEPT !.procs[p] =
                     [FreeProc EXCEPT !.top = "run", !.pc = "entry",
                        !.frame = src.len, !.pulled = TRUE,
                        !.polled = (s.procs[p].pc = "poll"),
                        !.stale = s.procs[p].stale]],
                  src.call), p)

\* `this.run()` at the end of run(): the next activation starts and the one
\* that called it returns; when the user had called that one, its promise
\* settles.
Reenter(s, p, src) ==
  IF s.procs[p].user THEN Settle(run(s, p, src)) ELSE run(s, p, src)

\* sendPoints returns to its caller: run() awaits it, a direct call is over.
ReturnPoints(s, p) ==
  IF s.procs[p].top = "run"
  THEN [s EXCEPT !.procs[p].pc = "pts_ret", !.micro = Append(@, ProcK(p))]
  ELSE Finish(s, p)

\* begin-sent was set by p: iterations of other loops see a flag they did not set.
SetBeginSent(s, p) ==
  [s EXCEPT !.beginsent = TRUE,
            !.procs = [q \in DOMAIN s.procs |->
                         IF q # p /\ s.procs[q].top = "run" /\ s.procs[q].idle0
                         THEN [s.procs[q] EXCEPT !.disturbed = TRUE]
                         ELSE s.procs[q]]]

\* The continuation of async call p after the await it was suspended at.
Resume(s, p, src) ==
  LET pc == s.procs[p].pc
      top == s.procs[p].top
  IN CASE pc = "prep_resume" ->
            LET s1 == OpDone([s EXCEPT !.preparesent = TRUE], p, "p")
            IN IF top = "run"
               THEN [s1 EXCEPT !.procs[p].pc = "prep_ret", !.micro = Append(@, ProcK(p))]
               ELSE Finish(s1, p)
       [] pc = "prep_ret" -> runCap(s, p)
       [] pc = "pts_resume" ->
            IF s.valid
            THEN IF ~s.beginsent
                 THEN sendBegin([s EXCEPT !.procs[p].dun = s.procs[p].un,
                                          !.procs[p].dok = s.procs[p].ok],
                                p, s.rate)
                 ELSE ReturnPoints(OpDone(s, p, "d"), p)
            ELSE ReturnPoints(OpDone(s, p, "d"), p)
       [] pc = "beg_resume" ->
            LET s1 == OpDone(SetBeginSent(s, p), p, "b")
            IN IF top = "b"
               THEN Finish(s1, p)
               ELSE [s1 EXCEPT !.procs[p].pc = "beg_ret", !.micro = Append(@, ProcK(p))]
       [] pc = "beg_ret" -> ReturnPoints(PointsDone(s, p), p)
       [] pc = "pts_ret" ->
            Reenter([s EXCEPT !.iterLog = IterSummary(s, p, "ok")], p, src)
       [] pc = "upd_resume" -> Finish(OpDone(SetBeginSent(s, p), p, "u"), p)
       [] pc = "cmd_resume" -> Finish(OpDone(s, p, top), p)
       [] pc = "rej2" ->
            [s EXCEPT !.procs[p].pc = "rej1", !.micro = Append(@, ProcK(p))]
       [] pc = "rej1" -> Finish(s, p)
       [] OTHER -> s

\* A command issued directly by the user on a free slot p.
UserCall(s, p, cmd, r, n) ==
  LET s1 == [s EXCEPT !.procs[p] = [FreeProc EXCEPT !.top = cmd, !.pc = "entry",
                                                     !.frame = n, !.cap = n]]
  IN CASE cmd = "?" -> sendPing(s1, p)
       [] cmd = "p" -> sendPrepare(s1, p)
       [] cmd = "b" -> sendBegin(s1, p, r)
       [] cmd = "u" -> sendUpdate(s1, p, r)
       [] cmd = "s" -> sendStop(s1, p)
       [] cmd = "e" -> sendEmergencyStop(s1, p)
       [] cmd = "d" -> sendPoints(s1, p, n)

\* A member the class leaves public, called by the user on a free slot p:
\* run(), waitForResponse(), _send(cmd), _popinputqueue() and
\* handleStandardResponse(data).
InternalCall(s, p, op, src, data) ==
  LET s0 == s
  IN CASE op = "run" ->
            LET s1 == run(s0, p, src)
            IN IF s1.procs[p].pc = "free" THEN Settle(s1)
               ELSE [s1 EXCEPT !.procs[p].user = TRUE]
       [] op = "wait" ->
            waitForResponse(
              [s0 EXCEPT !.procs[p] = [FreeProc EXCEPT !.top = "wait", !.pc = "cmd_wait"]],
              ProcK(p), STANDARD_RESPONSE_SIZE)
       [] op = "send" ->
            IF s0.client = 0 THEN s0
            ELSE Free(_send([s0 EXCEPT !.procs[p] =
                               [FreeProc EXCEPT !.top = "send", !.pc = "entry"]],
                            p, "?", 0), p)
       [] op = "pop" -> _popinputqueue(s0)
       [] op = "handle" -> handleStandardResponse(s0, data)

streamFrames(s, r, cb) ==
  [s EXCEPT !.rate = IF r # 0 THEN r ELSE @,
            !.streamCallback = IF cb # 0 THEN cb ELSE @]

\* The 'connect' listener, lines 82-97, on transport c; the new run() takes
\* the first free slot.
connected(s, c, src) ==
  LET s1 == waitForResponse(s, HsK(c), STANDARD_RESPONSE_SIZE)
      s2 == _popinputqueue(s1)
      s3 == [s2 EXCEPT !.running = TRUE]
  IN run(s3, CHOOSE p \in DOMAIN s3.procs :
                 /\ s3.procs[p].pc = "free"
                 /\ \A q \in DOMAIN s3.procs : s3.procs[q].pc = "free" => p <= q,
         src)

\* resolve(v) of the promise connect() returned: only the first call settles it.
resolveConnect(s, c, v) ==
  IF s.connRes[c] = "pending" THEN Settle([s EXCEPT !.connRes[c] = v]) ELSE s

\* ------------------------------------------------------ transports, device
NoSock == [st |-> "unused", toDev |-> <<>>, wire |-> <<>>, host |-> "", port |-> 0]
NoLast == [a |-> "-", cb |-> 0, rate |-> 0, dirty |-> FALSE, u |-> FALSE]
\* The user's code is running: a call made from a timer or I/O callback of
\* the user, or from a reaction the user attached to a promise.
UserTurn == [NoLast EXCEPT !.u = TRUE]
Live(sk, c) == sk[c].st \in {"connecting", "open"}

RECURSIVE ApplyWrites(_, _)
ApplyWrites(sk, wl) ==
  IF wl = <<>> THEN sk
  ELSE LET e == Head(wl)
           sk1 == IF e.sock # 0 /\ Live(sk, e.sock)
                  THEN [sk EXCEPT ![e.sock].toDev = Append(@, [c |-> e.c, n |-> e.n])]
                  ELSE sk
       IN ApplyWrites(sk1, Tail(wl))

\* client.destroy() and net.connect() of the step take effect on the transports.
ApplyLifecycle(sk, s) ==
  [c \in DOMAIN sk |->
     IF c = s.dial.sock
     THEN [NoSock EXCEPT !.st = "connecting", !.host = s.dial.host, !.port = s.dial.port]
     ELSE IF c \in s.destroyed
     THEN [NoSock EXCEPT !.st = "destroyed"]
     ELSE sk[c]]

ChunkSizes(len) == {k \in 1..len : k = len \/ k % ChunkUnit = 0}

FirstFree(pr) == CHOOSE p \in DOMAIN pr : pr[p].pc = "free" /\ \A q \in DOMAIN pr : pr[q].pc = "free" => p <= q
HasFree(pr) == \E p \in DOMAIN pr : pr[p].pc = "free"

\* The step commits: every field of s becomes the next state, the writes
\* of the step reach their transports.
Commit(s, sk, lst) ==
  /\ client' = s.client
  /\ inputqueue' = s.inputqueue
  /\ inputhandlerqueue' = s.inputhandlerqueue
  /\ fullness' = s.fullness
  /\ playback_state' = s.playback_state
  /\ beginsent' = s.beginsent
  /\ preparesent' = s.preparesent
  /\ valid' = s.valid
  /\ rate' = s.rate
  /\ streamCallback' = s.streamCallback
  /\ running' = s.running
  /\ micro' = s.micro
  /\ procs' = s.procs
  /\ connRes' = s.connRes
  /\ gRx' = s.gRx
  /\ gReg' = s.gReg
  /\ needBegin' = s.needBegin
  /\ hsDone' = s.hsDone
  /\ dlog' = s.dlog
  /\ wlog' = s.wlog
  /\ oplog' = s.oplog
  /\ iterLog' = s.iterLog
  /\ ip' = s.ip
  /\ port' = s.port
  /\ socks' = ApplyWrites(ApplyLifecycle(sk, s), s.wlog)
  /\ last' = [lst EXCEPT !.u = @ /\ s.micro # <<>>]

InitBudget(b) ==
  /\ client = 0 /\ inputqueue = <<>> /\ inputhandlerqueue = <<>>
  /\ fullness = 0 /\ playback_state = 0
  /\ beginsent = FALSE /\ preparesent = FALSE /\ valid = TRUE
  /\ rate = 0 /\ streamCallback = 0 /\ running = FALSE
  /\ ip = "" /\ port = 0
  /\ micro = <<>> /\ procs = [p \in 1..MaxProcs |-> FreeProc] /\ popTimers = 0
  /\ socks = [c \in 1..MaxConn |-> NoSock]
  /\ connRes = [c \in 1..MaxConn |-> "none"]
  /\ errTimer = [c \in 1..MaxConn |-> FALSE]
  /\ devq = 0 /\ devPlay = 0 /\ nconn = 0 /\ budget = b
  /\ gRx = <<>> /\ gReg = <<>> /\ dlog = <<>> /\ wlog = <<>> /\ oplog = <<>>
  /\ needBegin = 0 /\ last = NoLast /\ iterLog = NoIter /\ hsDone = {}
  /\ rxBytes = [c \in 1..MaxConn |-> 0]

Init == InitBudget(MaxSpecial)

\* What the sample source may do when run() calls it: return a frame, after
\* a call of the session when it makes one.  A source that is not called
\* does nothing; `slots` free slots are needed for the run() that calls it
\* and the call it makes.
Sources(pulls, slots) ==
  IF ~pulls THEN {[len |-> 3, call |-> "-"]}
  ELSE {src \in [len : FrameLens, call : SourceCalls] :
          src.call # "-" =>
            /\ budget > 0
            /\ src.call = "reconnect" => nconn < MaxConn
            /\ src.call = "?" =>
                  Cardinality({q \in 1..MaxProcs : procs[q].pc = "free"}) >= slots}

\* A call made by the source is one of the unusual events of a run; a
\* reconnect() it makes creates a transport.
SourceCost(src) ==
  /\ nconn' = IF src.call = "reconnect" /\ ip # "" /\ port # 0
              THEN nconn + 1 ELSE nconn
  /\ budget' = IF src.call = "-" THEN budget ELSE budget - 1

\* ---------------------------------------------------------- user operations
\* connect(ip, port), lines 69-81 and 100-122: the synchronous part.
\* The user's code runs in a macrotask of its own (no microtask is queued)
\* or goes on in the synchronous section it is in.
UserMay == micro = <<>> \/ last.u

Connect ==
  /\ UserMay
  /\ nconn < MaxConn
  /\ \E ad \in Addrs :
       /\ ip = "" => ad.ip = "A"   \* A names the first address dialled
       /\ Commit(connect(Cur, nconn + 1, ad.ip, ad.port), socks,
                 IF last.a = "close" /\ ad.ip = ip /\ ad.port = port
                 THEN [last EXCEPT !.a = "reconn"] ELSE UserTurn)
       /\ budget' = IF client # 0 THEN budget - 1 ELSE budget
       /\ budget' >= 0
  /\ nconn' = nconn + 1
  /\ UNCHANGED <<popTimers, errTimer, devq, devPlay, rxBytes>>

Close ==
  /\ UserMay
  /\ budget > 0
  /\ budget' = budget - 1
  /\ Commit(close(Cur), socks,
            [a |-> "close", cb |-> streamCallback, rate |-> rate, u |-> TRUE,
             dirty |-> (fullness # 0 /\ beginsent /\ preparesent
                        /\ inputhandlerqueue # <<>>)])
  /\ UNCHANGED <<popTimers, errTimer, devq, devPlay, nconn, rxBytes>>

\* reconnect() called by the user.
Reconnect ==
  /\ UserMay
  /\ nconn < MaxConn
  /\ LET s == reconnect(Cur, nconn + 1)
         threw == s.dial = NoDial
     IN /\ Commit(s, socks,
                  [a |-> IF threw THEN "reconnect_threw" ELSE "reconnect",
                   cb |-> streamCallback, rate |-> rate, dirty |-> FALSE,
                   u |-> TRUE])
        /\ nconn' = IF threw THEN nconn ELSE nconn + 1
        /\ budget' = IF threw THEN budget ELSE budget - 1
        /\ budget' >= 0
        /\ threw => last.a # "reconnect_threw"
  /\ UNCHANGED <<popTimers, errTimer, devq, devPlay, rxBytes>>

StreamFrames ==
  /\ UserMay
  /\ \E r \in RateVals, cb \in {0, 1} :
       /\ streamFrames(Cur, r, cb) # Cur
       /\ Commit(streamFrames(Cur, r, cb), socks, UserTurn)
  /\ UNCHANGED <<popTimers, errTimer, devq, devPlay, nconn, budget, rxBytes>>

UserCmd ==
  /\ UserMay
  /\ budget > 0
  /\ HasFree(procs)
  /\ \E cmd \in UserCmds, r \in RateVals :
       /\ (cmd \notin {"b", "u"}) => r = 0
       /\ Commit(UserCall(Cur, FirstFree(procs), cmd, r, 3), socks,
                 [a |-> cmd, cb |-> 0, rate |-> r, dirty |-> FALSE, u |-> TRUE])
  /\ budget' = budget - 1
  /\ UNCHANGED <<popTimers, errTimer, devq, devPlay, nconn, rxBytes>>

\* The user's code queues a job of its own (Promise.resolve().then(...))
\* behind the continuations queued so far.
UserThen ==
  /\ micro # <<>> /\ last.u
  /\ \A i \in 1..Len(micro) : micro[i] # ThenK
  /\ Commit(Settle(Cur), socks, UserTurn)
  /\ UNCHANGED <<popTimers, errTimer, devq, devPlay, nconn, budget, rxBytes>>

\* ------------------------------------------------------------- socket events
\* The 'connect' listener, lines 82-97.
SockConnect ==
  /\ micro = <<>>
  /\ HasFree(procs)
  /\ \E c \in 1..MaxConn, src \in Sources(streamCallback # 0, 2) :
       /\ socks[c].st = "connecting"
       /\ Commit(connected(Cur, c, src),
                 [socks EXCEPT ![c].st = "open",
                               ![c].toDev = <<[c |-> "?", n |-> 0]>> \o @],
                 NoLast)
       /\ SourceCost(src)
  /\ devq' = 0 /\ devPlay' = 0
  /\ UNCHANGED <<popTimers, errTimer, rxBytes>>

\* The 'data' listener, lines 100-110: push the bytes, arm a pop.  The number
\* of pending pops has no bound in the program (two loops serve each other's
\* responses from their own writes while the timers wait); runs with more
\* than MaxTimers pending are left out.
SockData ==
  /\ micro = <<>>
  /\ popTimers < MaxTimers
  /\ \E c \in 1..MaxConn :
       /\ socks[c].st = "open"
       /\ \E k \in ChunkSizes(Len(socks[c].wire)) :
            LET data == SubSeq(socks[c].wire, 1, k)
            IN /\ Commit([Cur EXCEPT !.inputqueue = @ \o data, !.gRx = @ \o data],
                         [socks EXCEPT ![c].wire = Drop(@, k)], NoLast)
               /\ rxBytes' = [rxBytes EXCEPT ![c] = Min(STANDARD_RESPONSE_SIZE, @ + k)]
               /\ budget' = IF k = Min(STANDARD_RESPONSE_SIZE, Len(socks[c].wire))
                            THEN budget ELSE budget - 1
               /\ budget' >= 0
  /\ popTimers' = popTimers + 1
  /\ UNCHANGED <<errTimer, devq, devPlay, nconn>>

\* The 'error' listener, lines 112-117.
SockError ==
  /\ micro = <<>>
  /\ budget > 0
  /\ budget' = budget - 1
  /\ \E c \in 1..MaxConn :
       /\ Live(socks, c)
       /\ Commit(Cur, [socks EXCEPT ![c] = [@ EXCEPT !.st = "errored", !.toDev = <<>>, !.wire = <<>>]], NoLast)
       /\ errTimer' = [errTimer EXCEPT ![c] = TRUE]
  /\ UNCHANGED <<popTimers, devq, devPlay, nconn, rxBytes>>

\* ------------------------------------------------------------------- timers
PopTimer ==
  /\ micro = <<>>
  /\ popTimers > 0
  /\ Commit(_popinputqueue(Cur), socks, NoLast)
  /\ popTimers' = popTimers - 1
  /\ UNCHANGED <<errTimer, devq, devPlay, nconn, budget, rxBytes>>

ErrTimer ==
  /\ micro = <<>>
  /\ \E c \in 1..MaxConn :
       /\ errTimer[c]
       /\ Commit(resolveConnect(Cur, c, "false"), socks, NoLast)
       /\ errTimer' = [errTimer EXCEPT ![c] = FALSE]
  /\ UNCHANGED <<popTimers, devq, devPlay, nconn, budget, rxBytes>>

\* delay(0) of line 249 elapses: this.run().
PollTimer ==
  /\ micro = <<>>
  /\ \E p \in 1..MaxProcs, src \in Sources(running /\ streamCallback # 0, 1) :
       /\ procs[p].pc = "poll"
       /\ Commit(Reenter(Cur, p, src), socks, NoLast)
       /\ SourceCost(src)
  /\ UNCHANGED <<popTimers, errTimer, devq, devPlay, rxBytes>>

\* delay(5) of line 263 elapses.
PauseTimer ==
  /\ micro = <<>>
  /\ \E p \in 1..MaxProcs :
       /\ procs[p].pc = "pause"
       /\ Commit(runAfterPause(Cur, p), socks, NoLast)
  /\ UNCHANGED <<popTimers, errTimer, devq, devPlay, nconn, budget, rxBytes>>

\* --------------------------------------------------------------- microtasks
Microtask ==
  /\ micro # <<>>
  /\ LET k == Head(micro)
         s0 == [Cur EXCEPT !.micro = Tail(@)]
     IN IF k.t = "hs"
        THEN /\ Commit(resolveConnect(s0, k.id, "true"), socks, NoLast)
             /\ UNCHANGED <<nconn, budget>>
        ELSE IF k.t = "then"
        THEN /\ Commit(s0, socks, UserTurn)
             /\ UNCHANGED <<nconn, budget>>
        ELSE \E src \in Sources(/\ procs[k.id].pc = "pts_ret"
                                 /\ running /\ streamCallback # 0, 1) :
               /\ Commit(Resume(s0, k.id, src), socks, NoLast)
               /\ SourceCost(src)
  /\ UNCHANGED <<popTimers, errTimer, devq, devPlay, rxBytes>>

\* ------------------------------------------------------------------- device
\* The device answers the oldest command it has received with one frame:
\* an acknowledgement reporting its state after the command, a refusal, or
\* an acknowledgement flagging an underrun (buffer empty, playback idle).
DevPlayAfter(c) ==
  CASE c = "p" -> 1 [] c = "b" -> 2 [] c \in {"s", "e"} -> 0 [] OTHER -> devPlay

DeviceFrames(cmd) ==
  { [response |-> ACK, command |-> cmd.c, playback_state |-> DevPlayAfter(cmd.c),
     playback_flags |-> 0, buffer_fullness |-> f, special |-> FALSE] :
      f \in {v \in FullnessVals : v <= devq + (IF cmd.c = "d" THEN cmd.n ELSE 0)} }
  \cup
  { [response |-> rc, command |-> cmd.c, playback_state |-> devPlay,
     playback_flags |-> 0, buffer_fullness |-> devq, special |-> TRUE] : rc \in NakVals }
  \cup
  { [response |-> ACK, command |-> cmd.c, playback_state |-> 0,
     playback_flags |-> fl, buffer_fullness |-> 0, special |-> TRUE] :
      fl \in UnderrunFlagVals }

\* The user calls a member the class leaves public.
InternalOps == {"run", "wait", "send", "pop", "handle"}

UserInternal ==
  /\ UserMay
  /\ budget > 0
  /\ HasFree(procs)
  /\ \E op \in InternalOps, fr \in DeviceFrames([c |-> "?", n |-> 0]) :
       /\ op # "handle" => fr.response = ACK /\ fr.playback_flags = 0
                            /\ fr.buffer_fullness = 0
       /\ \E src \in Sources(op = "run" /\ running /\ streamCallback # 0, 2) :
            /\ Commit(InternalCall(Cur, FirstFree(procs), op, src,
                                   parseStandardResponse(EncodeResponse(fr))),
                      socks, [UserTurn EXCEPT !.a = op])
            /\ nconn' = IF src.call = "reconnect" /\ ip # "" /\ port # 0
                        THEN nconn + 1 ELSE nconn
            /\ budget' = budget - (IF src.call = "-" THEN 1 ELSE 2)
            /\ budget' >= 0
  /\ UNCHANGED <<popTimers, errTimer, devq, devPlay, rxBytes>>


DeviceRespond ==
  /\ micro = <<>>
  /\ \E c \in 1..MaxConn :
       /\ socks[c].st = "open"
       /\ socks[c].toDev # <<>>
       /\ \E fr \in DeviceFrames(Head(socks[c].toDev)) :
            /\ Commit(Cur, [socks EXCEPT ![c].toDev = Tail(@),
                                         ![c].wire = @ \o EncodeResponse(fr)], NoLast)
            /\ devq' = fr.buffer_fullness
            /\ devPlay' = fr.playback_state
            /\ budget' = IF fr.special THEN budget - 1 ELSE budget
            /\ budget' >= 0
  /\ UNCHANGED <<popTimers, errTimer, nconn, rxBytes>>

Next ==
  \/ Connect \/ Close \/ Reconnect \/ StreamFrames \/ UserCmd \/ UserInternal
  \/ UserThen
  \/ SockConnect \/ SockData \/ SockError
  \/ PopTimer \/ ErrTimer \/ PollTimer \/ PauseTimer
  \/ Microtask \/ DeviceRespond

Spec == Init /\ [][Next]_vars

\* ------------------------------------------------------ any-fullness runs
\* One connection streaming to a device that acknowledges every command and
\* may report any buffer fullness of the unsigned 16-bit field.
DeviceReportsAny ==
  /\ micro = <<>>
  /\ \E c \in 1..MaxConn, f \in FullRange :
       /\ socks[c].st = "open"
       /\ socks[c].toDev # <<>>
       /\ LET cmd == Head(socks[c].toDev)
              fr == [response |-> ACK, command |-> cmd.c,
                     playback_state |-> DevPlayAfter(cmd.c),
                     playback_flags |-> 0, buffer_fullness |-> f]
          IN /\ Commit(Cur, [socks EXCEPT ![c].toDev = Tail(@),
                                          ![c].wire = @ \o EncodeResponse(fr)], NoLast)
             /\ devq' = f
             /\ devPlay' = fr.playback_state
  /\ UNCHANGED <<popTimers, errTimer, nconn, budget, rxBytes>>

\* The sample source returns its frame without calling the session.
QuietSource == budget' = budget

NextRange ==
  \/ Connect /\ ip' = "A" /\ client = 0
  \/ StreamFrames /\ rate' = 30000
  \/ SockConnect /\ QuietSource
  \/ SockData \/ PopTimer
  \/ PollTimer /\ QuietSource
  \/ PauseTimer
  \/ Microtask /\ QuietSource
  \/ DeviceReportsAny

SpecRange == Init /\ [][NextRange]_vars

\* ------------------------------------------------- pipelined-commands runs
\* One connection to address A streaming 3-sample frames at a fixed rate to
\* a device that reports an empty buffer, with the user issuing writeSamples
\* and ping calls beside the scheduler, refusals by the device and arbitrary
\* coalescing of the responses by the transport.
BurstFrames ==
  /\ \A p \in 1..MaxProcs : procs'[p].frame \in {0, 3}
  /\ \A i \in 1..Len(wlog') : wlog'[i].frame \in {0, 3}

BurstQuiet(c) ==
  LET w == socks'[c].wire
      st == parseStandardResponse(SubSeq(w, Len(w) - STANDARD_RESPONSE_SIZE + 1, Len(w)))
  IN Len(socks'[c].wire) > Len(socks[c].wire) =>
       (st.status.playback_flags = 0 /\ st.status.buffer_fullness = 0)

NextBurst ==
  \/ Connect /\ ip' = "A" /\ client = 0
  \/ StreamFrames /\ rate' = 30000 /\ streamCallback' = 1
  \/ UserCmd /\ last'.a \in {"d", "?"} /\ socks[1].st = "open"
  \/ SockConnect /\ BurstFrames /\ QuietSource
  \/ SockData
  \/ PopTimer
  \/ PollTimer /\ BurstFrames /\ QuietSource
  \/ Microtask /\ BurstFrames /\ QuietSource
  \/ DeviceRespond /\ \A c \in 1..MaxConn : BurstQuiet(c)

SpecBurst == InitBudget(BurstSpecial) /\ [][NextBurst]_vars

\* ------------------------------------------------------ scheduler-loop runs
\* Connect, close and reconnect on address A with 3-sample frames and a
\* device that reports an empty buffer.  The event loop runs every queued
\* microtask and fires every armed zero-delay timer.
NextPoll ==
  \/ Connect /\ ip' = "A"
  \/ Close
  \/ Reconnect
  \/ StreamFrames /\ rate' = 30000
  \/ SockConnect /\ BurstFrames
  \/ SockData
  \/ PopTimer
  \/ PollTimer /\ BurstFrames
  \/ Microtask /\ BurstFrames
  \/ DeviceRespond /\ \A c \in 1..MaxConn : BurstQuiet(c)

\* Weak fairness of Microtask, written out (WF_vars(A) is
\* []<>~ENABLED <<A>>_vars \/ []<><<A>>_vars): a non-empty microtask queue
\* enables only Microtask, and every Microtask step changes the state.
MicroRuns == []<>(micro = <<>>) \/ []<><<micro # <<>> >>_vars

\* Strong fairness of PollTimer, written out (SF_vars(A) is
\* <>[]~ENABLED <<A>>_vars \/ []<><<A>>_vars): an armed zero-delay timer
\* fires at a later turn of the event loop however often microtasks run in
\* between.  A poll that finds running set and no sample source re-arms the
\* timer and changes nothing, so the step is enabled only otherwise.
PollEnabled ==
  /\ micro = <<>>
  /\ \E p \in 1..MaxProcs :
       procs[p].pc = "poll" /\ (~running \/ streamCallback # 0)

PollFires ==
  \/ <>[](~PollEnabled)
  \/ []<><<micro = <<>> /\ \E p \in 1..MaxProcs :
                             procs[p].pc = "poll" /\ procs'[p].pc # "poll">>_vars

FairPoll == Init /\ [][NextPoll]_vars /\ MicroRuns /\ PollFires

\* ===================================================================== claims
RECURSIVE SumSizes(_)
SumSizes(q) == IF q = <<>> THEN 0 ELSE Head(q).size + SumSizes(Tail(q))

\* Nothing is scheduled: no microtask, no timer, no byte or command in flight.
Quiescent ==
  /\ micro = <<>>
  /\ popTimers = 0
  /\ \A c \in 1..MaxConn : ~errTimer[c] /\ socks[c].wire = <<>> /\ socks[c].toDev = <<>>
  /\ \A p \in 1..MaxProcs : procs[p].pc \notin {"poll", "pause"}

\* C1 -- Demultiplexer safety: every continuation invoked is the oldest
\* registered one not yet invoked (registration order, each at most once) and
\* is handed exactly its requested number of bytes, the next consecutive
\* bytes of the inbound stream, however the stream was chunked.
C1_DemuxSafety ==
  /\ \A i \in 1..Len(dlog) : dlog[i].okK /\ dlog[i].okData
  /\ gRx = inputqueue
  /\ gReg = inputhandlerqueue

\* C1 witness: a continuation was invoked from a chunk that did not end on a
\* frame boundary, with another expectation still queued behind it.
C1_Witness ==
  /\ dlog # <<>>
  /\ inputqueue # <<>> /\ Len(inputqueue) < STANDARD_RESPONSE_SIZE
  /\ inputhandlerqueue # <<>>

\* C2 -- Demultiplexer liveness, as stated: when nothing more is scheduled,
\* no expectation is left queued while the bytes received cover every queued
\* expectation.
C2_NoStall ==
  Quiescent => (inputhandlerqueue = <<>>
                \/ Len(inputqueue) < SumSizes(inputhandlerqueue))

SessionUnchanged ==
  /\ UNCHANGED sessVars
  /\ UNCHANGED socks
  /\ micro' = Append(micro, ThenK)

\* C3 -- begin with rate 0 or unset fails before anything else happens: no
\* byte written, no expectation queued, begin-sent and every other field
\* unchanged; the same when the scheduler's sendPoints calls it.
C3_BeginUsageError ==
  [][ /\ (last'.a = "b" /\ last'.rate = 0) => (SessionUnchanged /\ procs' = procs)
      /\ (iterLog'.how = "threw" /\ client # 0 /\ iterLog'.wrote = <<"p", "d">>)
            => (UNCHANGED sessVars /\ socks' = socks /\ wlog' = <<>>) ]_vars

\* C3 witness: the user has just called begin with rate 0.
C3_Witness == last.a = "b" /\ last.rate = 0 /\ client # 0

\* C4 -- as stated: whenever an operation that awaited a response with the
\* underrun flag set completes, begin-sent is false.
C4_UnderrunClearsBegin ==
  \A i \in 1..Len(oplog) : oplog[i].un => ~oplog[i].beginsent

\* C5 -- once a response with the underrun flag has been handled, the
\* scheduler writes begin before any further writeSamples.  Stated in its
\* weakest form, granting the one writeSamples that precedes begin in the
\* scheduler's order: no second writeSamples is written by the scheduler
\* while no begin has been written since the underrun.
C5_BeginBeforeSamples ==
  \A i \in 1..Len(wlog) :
    (wlog[i].c = "d" /\ wlog[i].by = "run") => wlog[i].needBegin < 2

IsPrefix(a, b) == Len(a) <= Len(b) /\ a = SubSeq(b, 1, Len(a))

\* C6 -- as stated: a scheduler iteration that started idle with begin-sent
\* false, every response acknowledged without underrun, has written prepare,
\* writeSamples, begin when it ends.
C6_PrepareSamplesBegin ==
  (iterLog.how # "-" /\ iterLog.idle0 /\ iterLog.clean)
     => iterLog.wrote = <<"p", "d", "b">>

\* C6 amended -- the same, provided a non-zero rate is configured, the
\* session has a transport when the iteration starts and no other operation
\* (close, or a begin or update of another caller setting begin-sent)
\* intervenes; in every iteration that started idle the commands written are
\* a prefix of prepare, writeSamples, begin, and every command the scheduler
\* writes is written after the responses to all its previous ones were handled.
C6_Amended ==
  /\ (iterLog.how # "-" /\ iterLog.idle0 /\ iterLog.clean
        /\ ~iterLog.disturbed /\ iterLog.rate # 0)
       => iterLog.wrote = <<"p", "d", "b">>
  /\ \A p \in 1..MaxProcs :
       (procs[p].top = "run" /\ procs[p].idle0)
          => IsPrefix(procs[p].wrote, <<"p", "d", "b">>)
  /\ \A i \in 1..Len(wlog) :
       wlog[i].by = "run" => wlog[i].acked = wlog[i].nth - 1

\* C6 witness: such an iteration has just ended having written all three.
C6_Witness ==
  /\ iterLog.how = "ok" /\ iterLog.idle0 /\ iterLog.clean /\ ~iterLog.disturbed
  /\ iterLog.wrote = <<"p", "d", "b">>

\* C7 -- the batch limit of every writeSamples the scheduler submits is
\* max(0, 1799 - f) with no pause when that is at least 100, and that plus 150
\* after one 5-unit pause otherwise, f being the fullness read; 1799 gives
\* 150, 1700 gives 249, 1699 gives 100 without pause.
C7_SpareCapacity ==
  \A i \in 1..Len(wlog) :
    LET e == wlog[i]
        spare == IF 1799 - e.capF > 0 THEN 1799 - e.capF ELSE 0
    IN (e.c = "d" /\ e.by = "run") =>
         /\ spare >= 100 => (e.limit = spare /\ e.paused = 0)
         /\ spare < 100 => (e.limit = spare + 150 /\ e.paused = 5)
         /\ e.capF = 1799 => e.limit = 150
         /\ e.capF = 1700 => e.limit = 249
         /\ e.capF = 1699 => (e.limit = 100 /\ e.paused = 0)
         /\ e.n = Min(e.limit, e.frame)

\* C7 witness: a batch submitted after the pause with fullness 1700 read.
C7_Witness ==
  \E i \in 1..Len(wlog) :
    wlog[i].c = "d" /\ wlog[i].by = "run" /\ wlog[i].capF = 1700 /\ wlog[i].limit = 249

\* C8 -- as stated: whenever the scheduler submits a batch, the batch plus
\* the samples then queued in the device (the device has not drained since
\* its last report) does not exceed the device buffer capacity.
C8_NoOverrun ==
  \A i \in 1..Len(wlog) :
    (wlog[i].c = "d" /\ wlog[i].by = "run") => wlog[i].n + devq <= MAX_FULLNESS

\* C8 amended -- a batch submitted without pause (last-known fullness at most
\* 1699) plus the last-known fullness does not exceed 1799; a batch submitted
\* after the pause is at most the spare capacity plus 150, so it may exceed
\* the capacity by up to 150 samples.
C8_Amended ==
  \A i \in 1..Len(wlog) :
    LET e == wlog[i]
    IN (e.c = "d" /\ e.by = "run") =>
         /\ e.paused = 0 => (e.capF = e.full /\ e.full <= 1699 /\ e.n + e.full <= MAX_FULLNESS)
         /\ e.paused # 0 => (e.capF >= 1700 /\ e.n + Min(e.capF, MAX_FULLNESS) <= MAX_FULLNESS + 150)

\* C8 witness: a padded batch that overshoots the capacity was submitted.
C8_Witness ==
  \E i \in 1..Len(wlog) :
    /\ wlog[i].c = "d" /\ wlog[i].by = "run" /\ wlog[i].paused # 0
    /\ wlog[i].n + devq > MAX_FULLNESS

FreshFields ==
  /\ inputqueue = <<>> /\ inputhandlerqueue = <<>>
  /\ fullness = 0 /\ playback_state = 0
  /\ ~preparesent /\ ~beginsent /\ valid /\ ~running
  /\ client # 0

\* C9 -- as stated: after close() followed by connect() every state field,
\* the target sample rate included, equals that of a fresh session that has
\* just called connect; only the sample source keeps its value.
C9_ReconnectFresh ==
  last.a = "reconn" => (FreshFields /\ rate = 0 /\ streamCallback = last.cb)

\* C9 amended -- the same, except that the sample source and the target
\* sample rate both keep their values from before the close.
C9_Amended ==
  last.a = "reconn" => (FreshFields /\ rate = last.rate /\ streamCallback = last.cb)

\* C9 witness: close() then connect() on a session that had a source and a
\* rate configured, a non-zero fullness, both flags set and a response pending.
C9_Witness ==
  last.a = "reconn" /\ last.dirty /\ last.cb # 0 /\ last.rate # 0

\* C10 -- connect resolves true only after one complete 22-byte response was
\* received and handled on the transport it opened, never before; and once
\* that transport has reported an error before a complete response arrived
\* (and the error timer has run) it has resolved false.
C10_ConnectResolution ==
  \A c \in 1..MaxConn :
    /\ connRes[c] = "true" => (c \in hsDone /\ rxBytes[c] = STANDARD_RESPONSE_SIZE)
    /\ (socks[c].st = "errored" /\ ~errTimer[c]
           /\ rxBytes[c] < STANDARD_RESPONSE_SIZE) => connRes[c] = "false"

\* C11 -- reconnect() on a session that was never given an address fails and
\* leaves the session untouched (no close, no transport opened, no field
\* changed); with an address known it performs close() and then connect()
\* to that same address and port.
C11_Reconnect ==
  [][ /\ last'.a = "reconnect_threw" =>
           /\ (ip = "" \/ port = 0)
           /\ UNCHANGED sessVars
           /\ UNCHANGED <<socks, micro, procs, connRes, nconn>>
      /\ last'.a = "reconnect" =>
           /\ ip # "" /\ port # 0 /\ ip' = ip /\ port' = port
           /\ client # 0 => socks'[client].st = "destroyed"
           /\ client' # 0 /\ client' # client
           /\ socks'[client'].st = "connecting"
           /\ socks'[client'].host = ip /\ socks'[client'].port = port
           /\ connRes'[client'] = "pending"
           /\ inputqueue' = <<>> /\ inputhandlerqueue' = <<>>
           /\ fullness' = 0 /\ playback_state' = 0
           /\ ~beginsent' /\ ~preparesent' /\ valid' /\ ~running'
           /\ rate' = rate /\ streamCallback' = streamCallback ]_vars

\* C11 witness: reconnect() has just closed the transport to the stored
\* address and opened a new one.
C11_Witness ==
  /\ last.a = "reconnect" /\ ip = "A" /\ client # 0
  /\ \E c \in 1..MaxConn : socks[c].st = "destroyed"

\* C12 -- begin-sent changes from false to true only when the response to a
\* begin or update command has been received and that response carries the
\* acknowledgement code; never after an invalid response.
C12_BeginSentOnlyWhenValid ==
  [][ (~beginsent /\ beginsent') =>
        \E i \in 1..Len(oplog') :
           oplog'[i].op \in {"b", "u"} /\ oplog'[i].ok ]_vars

\* C13 -- a response code other than the acknowledgement makes the session
\* record valid = false; a writeSamples operation whose response was not an
\* acknowledgement writes nothing more (no begin, no retry); begin is written
\* by a writeSamples operation only when its response was an acknowledgement
\* and begin-sent was false.
C13_InvalidSamplesWriteNothing ==
  /\ \A i \in 1..Len(dlog) : dlog[i].valid = dlog[i].ack
  /\ (\E i \in 1..Len(oplog) : oplog[i].op = "d" /\ ~oplog[i].ok) => wlog = <<>>
  /\ \A i \in 1..Len(wlog) :
       (wlog[i].c = "b" /\ wlog[i].by \in {"run", "d"})
          => (wlog[i].ok /\ ~wlog[i].bs)

\* C14 -- request/response pairing: with a device that answers strictly in
\* request order, every operation (and the connect handshake) is resumed
\* with the response to its own command: the command echoed in the response
\* handed to a continuation is the command that continuation's operation
\* wrote (the status query for the handshake).
C14_Pairing == \A i \in 1..Len(dlog) : dlog[i].own

\* C15 -- underrun detection treats the playback flags as a bitmask: handling
\* a response whose flags have bit value 2 set clears begin-sent whatever the
\* other bits, and handling one without that bit leaves begin-sent unchanged.
C15_UnderrunBitmask ==
  \A i \in 1..Len(dlog) :
    /\ dlog[i].un => ~dlog[i].bs1
    /\ ~dlog[i].un => dlog[i].bs1 = dlog[i].bs0

\* C16 -- while running is set and no sample source is configured the
\* scheduler writes no command and registers no expectation, and it stays
\* alive (suspended in its zero-delay poll); once a sample source is
\* configured a polling scheduler eventually pulls a frame from it, unless
\* running is cleared first.
C16_IdlePolling ==
  /\ [](streamCallback = 0 =>
          /\ \A i \in 1..Len(wlog) : wlog[i].by # "run"
          /\ \A i \in 1..Len(inputhandlerqueue) :
                inputhandlerqueue[i].k.t = "proc"
                   => procs[inputhandlerqueue[i].k.id].top # "run")
  /\ []((running /\ streamCallback = 0) =>
          \E p \in 1..MaxProcs : procs[p].top = "run" /\ procs[p].pc = "poll")
  /\ \A p \in 1..MaxProcs :
       (procs[p].pc = "poll" /\ running /\ streamCallback # 0)
          ~> ((procs[p].top = "run" /\ procs[p].pulled) \/ ~running)

\* C16 witness: a scheduler that was polling has pulled a frame from a
\* sample source configured after the transport opened.
C16_Witness ==
  \E p \in 1..MaxProcs :
    procs[p].top = "run" /\ procs[p].polled /\ procs[p].pulled /\ running

\* C17 -- close() is a hard cancel of the scheduler: a scheduler loop that
\* was running when close() was called writes no further command, to the old
\* transport or to one opened by a later connect, whether it was awaiting a
\* response, in the zero-delay poll or in the 5-unit pause.
C17_CloseCancels == \A i \in 1..Len(wlog) : wlog[i].stale = ""

\* C18 -- every writeSamples batch the scheduler submits has at most 1799
\* samples, whatever fullness of the unsigned 16-bit range was reported and
\* whatever the frame length: the count fits the 16-bit count field and the
\* device buffer capacity, and the batch is the first min(limit, frame length)
\* samples of the pulled frame.
C18_BatchBound ==
  \A i \in 1..Len(wlog) :
    LET e == wlog[i]
    IN (e.c = "d" /\ e.by = "run") =>
         /\ e.n <= 1799 /\ e.n < 65536 /\ e.n <= MAX_FULLNESS
         /\ e.lo = 0 /\ e.n = Min(e.limit, e.frame)

\* C18 witness: a 2000-sample frame was cut to its first 150 samples after
\* the device reported a fullness of 65535.
C18_Witness ==
  \E i \in 1..Len(wlog) :
    /\ wlog[i].c = "d" /\ wlog[i].by = "run" /\ wlog[i].capF = 65535
    /\ wlog[i].frame = 2000 /\ wlog[i].n = 150 /\ wlog[i].lo = 0

\* C19 -- at most one scheduler loop is active per session: after any
\* sequence of connect, close and reconnect there are never two scheduler
\* iterations in progress that have both pulled a frame and written a command.
C19_SingleLoop ==
  \A p, q \in 1..MaxProcs :
    (/\ procs[p].top = "run" /\ procs[p].pulled /\ procs[p].wrote # <<>>
     /\ procs[q].top = "run" /\ procs[q].pulled /\ procs[q].wrote # <<>>)
      => p = q

\* C20 -- scheduler progress: while the running flag is set, a sample source
\* is configured and the transport is open, the scheduler loop keeps being
\* re-entered, whatever the configured rate (unset included) and whatever the
\* device answers; so in every such state an activation of the loop exists,
\* suspended or about to resume.
C20_LoopAlive ==
  (running /\ streamCallback # 0 /\ client # 0)
    => \E p \in 1..MaxProcs : procs[p].top = "run"
====
